---- MODULE Spec2Model ----
(***************************************************************************)
(* Model of helper/src/lib.rs: the stash cache (network_thread_func and    *)
(* its fetch worker), the recipe generator (ChaosListGenerator) and the    *)
(* caller entry point (acquire_chaos_list).                                *)
(*                                                                         *)
(* An Item is modelled by the fields the code reads: x stands for the      *)
(* position and size (w, h, x, y), which the code only copies.             *)
(***************************************************************************)
EXTENDS Integers, Sequences, FiniteSets, TLC

(***************************************************************************)
(* Bounds of the model.                                                    *)
(***************************************************************************)
\* number of requests the callers issue in one behaviour
MaxRequests == 4

(***************************************************************************)
(* Program constants.                                                      *)
(***************************************************************************)
\* mpsc::sync_channel::<()>(1)
MailboxCapacity == 1
\* item.ilvl < 60 is dropped
MinItemLevel == 60
\* item.ilvl < 75 goes to the chaos list, else to the regal list
RegalItemLevel == 75
\* frame_type 2 is the qualifying rarity
QualifyingFrameType == 2

ItemType ==
    {"Weapon1HOrShield", "Weapon2H", "Body", "Helmet", "Boots", "Gloves",
     "Ring", "Amulet", "Belt", "Useless"}

\* let recipe_without_weapons: [ItemType; 8]
recipe_without_weapons ==
    <<"Amulet", "Belt", "Body", "Boots", "Gloves", "Helmet", "Ring", "Ring">>

None == [some |-> FALSE]

(***************************************************************************)
(* ItemTypeVisitor::visit_str.  An icon url is modelled by its path        *)
(* segments; the token ".png" stands for the file extension.  The regex    *)
(* /2DItems/(.+?)/(.+?)(\.png|/) matches when a segment "2DItems" is        *)
(* followed by two segments and then by ".png" or by a further "/".        *)
(***************************************************************************)
IconMatches(icon) ==
    {i \in 1..Len(icon) : icon[i] = "2DItems" /\ i + 3 <= Len(icon)}

IconMatch(icon) ==
    CHOOSE i \in IconMatches(icon) : \A j \in IconMatches(icon) : i <= j

visit_str(icon) ==
    IF IconMatches(icon) = {}
    THEN [ok |-> FALSE]
    ELSE LET i == IconMatch(icon)
             cat == icon[i + 1]
             sub == icon[i + 2]
         IN  [ok |-> TRUE,
              itype |->
                 CASE cat = "Armours" /\ sub = "Boots" -> "Boots"
                   [] cat = "Armours" /\ sub = "Helmets" -> "Helmet"
                   [] cat = "Armours" /\ sub = "Gloves" -> "Gloves"
                   [] cat = "Armours" /\ sub = "BodyArmours" -> "Body"
                   [] cat = "Armours" /\ sub = "Shields" -> "Weapon1HOrShield"
                   [] cat = "Weapons" /\ sub = "OneHandWeapons" -> "Weapon1HOrShield"
                   [] cat = "Weapons" /\ sub = "TwoHandWeapons" -> "Weapon2H"
                   [] cat = "Weapons" /\ sub = "Bows" -> "Weapon2H"
                   [] cat = "Amulets" -> "Amulet"
                   [] cat = "Rings" -> "Ring"
                   [] cat = "Belts" -> "Belt"
                   [] OTHER -> "Useless"]

(***************************************************************************)
(* Deserialization of the snapshot (res.json() in get_stash_data_in): one  *)
(* record whose icon does not parse fails the whole snapshot.              *)
(***************************************************************************)
DeserializeItem(raw) ==
    [x |-> raw.x, ilvl |-> raw.ilvl, frame_type |-> raw.frameType,
     itype |-> visit_str(raw.icon).itype]

\* as DeserializeStash, but a record whose icon does not parse is skipped
DeserializeStash_skip(snap) ==
    LET good == SelectSeq(snap.items, LAMBDA raw : visit_str(raw.icon).ok)
    IN  [ok |-> TRUE,
         items |-> [i \in 1..Len(good) |-> DeserializeItem(good[i])],
         quad_layout |-> snap.quadLayout]

DeserializeStash(snap) ==
    IF \E i \in 1..Len(snap.items) : ~visit_str(snap.items[i].icon).ok
    THEN [ok |-> FALSE]
    ELSE [ok |-> TRUE,
          items |-> [i \in 1..Len(snap.items) |-> DeserializeItem(snap.items[i])],
          quad_layout |-> snap.quadLayout]

(***************************************************************************)
(* Classification, the loop of the fetch worker.  A ChaosRecipeSet is a    *)
(* function from the item types that have an entry to the pair             *)
(* <<chaos list, regal list>>.                                             *)
(***************************************************************************)
ItemQualifies(item) ==
    ~(item.ilvl < MinItemLevel \/ item.frame_type # QualifyingFrameType)

\* as IsChaosTier, but item level 75 still counts as chaos tier
IsChaosTier_le(item) == item.ilvl <= RegalItemLevel

IsChaosTier(item) == item.ilvl < RegalItemLevel

RECURSIVE ClassifyFrom(_, _, _)
ClassifyFrom(items, i, map) ==
    IF i > Len(items) THEN map
    ELSE LET item == items[i]
         IN  IF ~ItemQualifies(item) THEN ClassifyFrom(items, i + 1, map)
             ELSE LET old == IF item.itype \in DOMAIN map
                             THEN map[item.itype] ELSE <<<<>>, <<>>>>
                      new == IF IsChaosTier(item)
                             THEN <<Append(old[1], item), old[2]>>
                             ELSE <<old[1], Append(old[2], item)>>
                      map2 == [t \in DOMAIN map \cup {item.itype} |->
                                  IF t = item.itype THEN new ELSE map[t]]
                  IN  ClassifyFrom(items, i + 1, map2)

EmptyMap == [t \in {} |-> <<<<>>, <<>>>>]

Classify(items) == ClassifyFrom(items, 1, EmptyMap)

(***************************************************************************)
(* ChaosListGenerator.  The generator state is the function stash_items    *)
(* from item type to the pair of the remaining slices.                     *)
(***************************************************************************)
\* ChaosListGenerator::new
NewGenerator(map) == map

\* as get_item, but the cursor of the list picked from stays where it is
get_item_stay(list_tuple, can_make_chaos) ==
    LET chaos_list == list_tuple[1]
        regal_list == list_tuple[2]
        takeChaos == [some |-> TRUE, left |-> TRUE, item |-> Head(chaos_list),
                      lt |-> list_tuple]
        takeRegal == [some |-> TRUE, left |-> FALSE, item |-> Head(regal_list),
                      lt |-> list_tuple]
        none == [some |-> FALSE, lt |-> list_tuple]
    IN  IF can_make_chaos
        THEN IF regal_list # <<>> THEN takeRegal
             ELSE IF chaos_list # <<>> THEN takeChaos ELSE none
        ELSE IF chaos_list # <<>> THEN takeChaos
             ELSE IF regal_list # <<>> THEN takeRegal ELSE none

\* ChaosListGenerator::get_item: the pick and the advanced slices
get_item(list_tuple, can_make_chaos) ==
    LET chaos_list == list_tuple[1]
        regal_list == list_tuple[2]
        takeChaos == [some |-> TRUE, left |-> TRUE, item |-> Head(chaos_list),
                      lt |-> <<Tail(chaos_list), regal_list>>]
        takeRegal == [some |-> TRUE, left |-> FALSE, item |-> Head(regal_list),
                      lt |-> <<chaos_list, Tail(regal_list)>>]
        none == [some |-> FALSE, lt |-> list_tuple]
    IN  IF can_make_chaos
        THEN IF regal_list # <<>> THEN takeRegal
             ELSE IF chaos_list # <<>> THEN takeChaos ELSE none
        ELSE IF chaos_list # <<>> THEN takeChaos
             ELSE IF regal_list # <<>> THEN takeRegal ELSE none

SetTuple(gen, t, lt) == [gen EXCEPT ![t] = lt]

\* ChaosListGenerator::get_item_by_type
get_item_by_type(gen, i_type, can_make_chaos) ==
    IF i_type \notin DOMAIN gen
    THEN [some |-> FALSE, gen |-> gen]
    ELSE LET r == get_item(gen[i_type], can_make_chaos)
         IN  IF r.some
             THEN [some |-> TRUE, left |-> r.left, item |-> r.item,
                   gen |-> SetTuple(gen, i_type, r.lt)]
             ELSE [some |-> FALSE, gen |-> gen]

\* as get_weapon_1h, but one one-hand item is enough
get_weapon_1h_single(list_tuple, can_make_chaos) ==
    LET e1 == get_item(list_tuple, can_make_chaos)
    IN  IF ~e1.some THEN [some |-> FALSE, lt |-> e1.lt]
        ELSE [some |-> TRUE, items |-> <<e1.item>>, lt |-> e1.lt]

\* as get_weapon_1h, but after a first pick from the regal list a second pick
\* from the regal list completes the pair
get_weapon_1h_anypair(list_tuple, can_make_chaos) ==
    LET e1 == get_item(list_tuple, can_make_chaos)
    IN  IF ~e1.some THEN [some |-> FALSE, lt |-> e1.lt]
        ELSE IF can_make_chaos
        THEN LET e2 == get_item(e1.lt, can_make_chaos)
             IN  IF e2.some
                 THEN [some |-> TRUE, items |-> <<e1.item, e2.item>>, lt |-> e2.lt]
                 ELSE [some |-> FALSE, lt |-> e2.lt]
        ELSE IF e1.left
        THEN LET e2 == get_item(e1.lt, TRUE)
             IN  IF e2.some
                 THEN [some |-> TRUE, items |-> <<e2.item, e1.item>>, lt |-> e2.lt]
                 ELSE [some |-> FALSE, lt |-> e2.lt]
        ELSE LET e2 == get_item(e1.lt, FALSE)
             IN  IF e2.some
                 THEN [some |-> TRUE, items |-> <<e1.item, e2.item>>, lt |-> e2.lt]
                 ELSE [some |-> FALSE, lt |-> e2.lt]

\* the Weapon1HOrShield part of get_weapon_items
get_weapon_1h(list_tuple, can_make_chaos) ==
    LET e1 == get_item(list_tuple, can_make_chaos)
    IN  IF ~e1.some THEN [some |-> FALSE, lt |-> e1.lt]
        ELSE IF can_make_chaos
        THEN LET e2 == get_item(e1.lt, can_make_chaos)
             IN  IF e2.some
                 THEN [some |-> TRUE, items |-> <<e1.item, e2.item>>, lt |-> e2.lt]
                 ELSE [some |-> FALSE, lt |-> e2.lt]
        ELSE IF e1.left
        THEN LET e2 == get_item(e1.lt, TRUE)
             IN  IF e2.some
                 THEN [some |-> TRUE, items |-> <<e2.item, e1.item>>, lt |-> e2.lt]
                 ELSE [some |-> FALSE, lt |-> e2.lt]
        ELSE LET e2 == get_item(e1.lt, FALSE)
             IN  IF e2.some /\ e2.left
                 THEN [some |-> TRUE, items |-> <<e1.item, e2.item>>, lt |-> e2.lt]
                 ELSE [some |-> FALSE, lt |-> e2.lt]

\* as get_weapon_2h, but a two-hand weapon from the regal list is never taken
get_weapon_2h_strict(list_tuple, can_make_chaos) ==
    LET e == get_item(list_tuple, can_make_chaos)
    IN  IF e.some /\ e.left
        THEN [some |-> TRUE, items |-> <<e.item>>, lt |-> e.lt]
        ELSE [some |-> FALSE, lt |-> e.lt]

\* as get_weapon_2h, but a two-hand weapon of either list is always taken
get_weapon_2h_any(list_tuple, can_make_chaos) ==
    LET e == get_item(list_tuple, can_make_chaos)
    IN  IF e.some
        THEN [some |-> TRUE, items |-> <<e.item>>, lt |-> e.lt]
        ELSE [some |-> FALSE, lt |-> e.lt]

\* the Weapon2H part of get_weapon_items
get_weapon_2h(list_tuple, can_make_chaos) ==
    LET e == get_item(list_tuple, can_make_chaos)
    IN  IF e.some /\ (can_make_chaos \/ e.left)
        THEN [some |-> TRUE, items |-> <<e.item>>, lt |-> e.lt]
        ELSE [some |-> FALSE, lt |-> e.lt]

\* as get_weapon_items, but the Weapon2H pool is tried only when the
\* Weapon1HOrShield pool has no item at all
get_weapon_items_firstonly(gen, can_make_chaos) ==
    LET w1 == IF "Weapon1HOrShield" \in DOMAIN gen
              THEN get_weapon_1h(gen["Weapon1HOrShield"], can_make_chaos)
              ELSE None
        gen1 == IF "Weapon1HOrShield" \in DOMAIN gen
                THEN SetTuple(gen, "Weapon1HOrShield", w1.lt) ELSE gen
    IN  IF w1.some
        THEN [some |-> TRUE, two_hand |-> FALSE, items |-> w1.items, gen |-> gen1]
        ELSE IF "Weapon2H" \notin DOMAIN gen1 \/ gen1 # gen
        THEN [some |-> FALSE, gen |-> gen1]
        ELSE LET w2 == get_weapon_2h(gen1["Weapon2H"], can_make_chaos)
                 gen2 == SetTuple(gen1, "Weapon2H", w2.lt)
             IN  IF w2.some
                 THEN [some |-> TRUE, two_hand |-> TRUE, items |-> w2.items,
                       gen |-> gen2]
                 ELSE [some |-> FALSE, gen |-> gen2]

\* ChaosListGenerator::get_weapon_items
get_weapon_items(gen, can_make_chaos) ==
    LET w1 == IF "Weapon1HOrShield" \in DOMAIN gen
              THEN get_weapon_1h(gen["Weapon1HOrShield"], can_make_chaos)
              ELSE None
        gen1 == IF "Weapon1HOrShield" \in DOMAIN gen
                THEN SetTuple(gen, "Weapon1HOrShield", w1.lt) ELSE gen
    IN  IF w1.some
        THEN [some |-> TRUE, two_hand |-> FALSE, items |-> w1.items, gen |-> gen1]
        ELSE IF "Weapon2H" \notin DOMAIN gen1
        THEN [some |-> FALSE, gen |-> gen1]
        ELSE LET w2 == get_weapon_2h(gen1["Weapon2H"], can_make_chaos)
                 gen2 == SetTuple(gen1, "Weapon2H", w2.lt)
             IN  IF w2.some
                 THEN [some |-> TRUE, two_hand |-> TRUE, items |-> w2.items,
                       gen |-> gen2]
                 ELSE [some |-> FALSE, gen |-> gen2]

\* as FoldSlots, but a slot that cannot be filled is left out of the bundle
RECURSIVE FoldSlots_partial(_, _, _, _)
FoldSlots_partial(gen, i, vec, can_make_chaos) ==
    IF i > Len(recipe_without_weapons)
    THEN [some |-> TRUE, vec |-> vec, can_make_chaos |-> can_make_chaos, gen |-> gen]
    ELSE CHOOSE res \in
            { IF ~r.some
              THEN FoldSlots_partial(r.gen, i + 1, vec, can_make_chaos)
              ELSE FoldSlots_partial(r.gen, i + 1, Append(vec, r.item),
                                     can_make_chaos \/ r.left) :
              r \in {get_item_by_type(gen, recipe_without_weapons[i],
                                      can_make_chaos)} } : TRUE

\* as FoldSlots, but the flag is set by a pick from the regal list
RECURSIVE FoldSlots_flip(_, _, _, _)
FoldSlots_flip(gen, i, vec, can_make_chaos) ==
    IF i > Len(recipe_without_weapons)
    THEN [some |-> TRUE, vec |-> vec, can_make_chaos |-> can_make_chaos, gen |-> gen]
    ELSE CHOOSE res \in
            { IF ~r.some THEN [some |-> FALSE, gen |-> r.gen]
              ELSE FoldSlots_flip(r.gen, i + 1, Append(vec, r.item),
                                  can_make_chaos \/ ~r.left) :
              r \in {get_item_by_type(gen, recipe_without_weapons[i],
                                      can_make_chaos)} } : TRUE

\* the try_fold of next over recipe_without_weapons, from slot i on
\* (a pick is bound by a set constructor, so that it is evaluated once)
RECURSIVE FoldSlots(_, _, _, _)
FoldSlots(gen, i, vec, can_make_chaos) ==
    IF i > Len(recipe_without_weapons)
    THEN [some |-> TRUE, vec |-> vec, can_make_chaos |-> can_make_chaos, gen |-> gen]
    ELSE CHOOSE res \in
            { IF ~r.some THEN [some |-> FALSE, gen |-> r.gen]
              ELSE FoldSlots(r.gen, i + 1, Append(vec, r.item),
                             can_make_chaos \/ r.left) :
              r \in {get_item_by_type(gen, recipe_without_weapons[i],
                                      can_make_chaos)} } : TRUE

\* as NextWeapons, but the weapons are picked as if the flag were true
NextWeapons_flagless(f) ==
    CHOOSE res \in
        { IF w.some
          THEN [some |-> TRUE, bundle |-> f.vec \o w.items, gen |-> w.gen]
          ELSE [some |-> FALSE, gen |-> w.gen] :
          w \in {get_weapon_items(f.gen, TRUE)} } : TRUE

\* as NextWeapons, but the weapons found are not added to the bundle
NextWeapons_skip(f) ==
    CHOOSE res \in
        { IF w.some
          THEN [some |-> TRUE, bundle |-> f.vec, gen |-> w.gen]
          ELSE [some |-> FALSE, gen |-> w.gen] :
          w \in {get_weapon_items(f.gen, f.can_make_chaos)} } : TRUE

\* the weapon part of next, after the fold f
NextWeapons(f) ==
    CHOOSE res \in
        { IF w.some
          THEN [some |-> TRUE, bundle |-> f.vec \o w.items, gen |-> w.gen]
          ELSE [some |-> FALSE, gen |-> w.gen] :
          w \in {get_weapon_items(f.gen, f.can_make_chaos)} } : TRUE

\* Iterator::next of ChaosListGenerator
GenNext(gen) ==
    CHOOSE res \in
        { IF ~f.some THEN [some |-> FALSE, gen |-> f.gen] ELSE NextWeapons(f) :
          f \in {FoldSlots(gen, 1, <<>>, FALSE)} } : TRUE

\* collect(): bundles until the first None
RECURSIVE Collect(_)
Collect(gen) ==
    CHOOSE res \in
        { IF n.some THEN <<n.bundle>> \o Collect(n.gen) ELSE <<>> :
          n \in {GenNext(gen)} } : TRUE

\* ChaosListGenerator::new(&map).collect()
Generate(map) == Collect(NewGenerator(map))

(***************************************************************************)
(* The remote stash: the contents the service may hold when a fetch reads  *)
(* it.  Raw records as get-stash-items returns them.                       *)
(***************************************************************************)
IconFor(t) ==
    CASE t = "Boots" -> <<"image", "2DItems", "Armours", "Boots", "b1", ".png">>
      [] t = "Helmet" -> <<"image", "2DItems", "Armours", "Helmets", "h1", ".png">>
      [] t = "Gloves" -> <<"image", "2DItems", "Armours", "Gloves", "g1", ".png">>
      [] t = "Body" -> <<"image", "2DItems", "Armours", "BodyArmours", "a1", ".png">>
      [] t = "Shield" -> <<"image", "2DItems", "Armours", "Shields", "s1", ".png">>
      [] t = "Weapon1H" -> <<"image", "2DItems", "Weapons", "OneHandWeapons", "Swords", "w1", ".png">>
      [] t = "Weapon2H" -> <<"image", "2DItems", "Weapons", "TwoHandWeapons", "Axes", "w2", ".png">>
      [] t = "Bow" -> <<"image", "2DItems", "Weapons", "Bows", "w3", ".png">>
      [] t = "Amulet" -> <<"image", "2DItems", "Amulets", "Amulet1", ".png">>
      [] t = "Ring" -> <<"image", "2DItems", "Rings", "Ring1", ".png">>
      [] t = "Belt" -> <<"image", "2DItems", "Belts", "Belt1", ".png">>
      [] t = "Quiver" -> <<"image", "2DItems", "Armours", "Quivers", "q1", ".png">>
      [] t = "Flask" -> <<"image", "2DItems", "Flasks", "life1", ".png">>
      [] OTHER -> <<"image", "Art", "bad", ".png">>

Raw(x, ilvl, frameType, t) ==
    [x |-> x, ilvl |-> ilvl, frameType |-> frameType, icon |-> IconFor(t)]

\* a rare item
Rare(x, ilvl, t) == Raw(x, ilvl, QualifyingFrameType, t)

\* a stash holding two full sets
TwoSetItems ==
    << Rare(1, 60, "Amulet"), Rare(2, 80, "Amulet"),
       Rare(3, 61, "Belt"), Rare(4, 81, "Belt"),
       Rare(5, 62, "Body"), Rare(6, 82, "Body"),
       Rare(7, 63, "Boots"), Rare(8, 83, "Boots"),
       Rare(9, 64, "Gloves"), Rare(10, 84, "Gloves"),
       Rare(11, 65, "Helmet"), Rare(12, 85, "Helmet"),
       Rare(13, 66, "Ring"), Rare(14, 75, "Ring"),
       Rare(15, 74, "Ring"), Rare(16, 86, "Ring"),
       Rare(17, 70, "Weapon1H"), Rare(18, 77, "Shield"),
       Rare(19, 71, "Shield"), Rare(20, 78, "Weapon1H") >>

\* a stash holding one full set, a two-hand weapon, and items of no use
OneSetItems ==
    << Rare(1, 74, "Bow"), Raw(2, 80, 0, "Ring"), Rare(3, 59, "Belt"),
       Rare(4, 60, "Amulet"), Rare(5, 76, "Belt"), Rare(6, 77, "Body"),
       Rare(7, 78, "Boots"), Rare(8, 79, "Gloves"), Rare(9, 80, "Helmet"),
       Rare(10, 81, "Ring"), Rare(11, 82, "Ring"), Rare(12, 83, "Quiver"),
       Rare(13, 84, "Flask") >>

Snapshots ==
    << [items |-> OneSetItems, quadLayout |-> FALSE],
       [items |-> TwoSetItems, quadLayout |-> TRUE],
       [items |-> Append(OneSetItems, Rare(14, 70, "Bad")), quadLayout |-> TRUE] >>

(***************************************************************************)
(* State.                                                                  *)
(***************************************************************************)
VARIABLES
    map,            \* current_inventory (let mut map)
    chaos_queue,    \* bundle_queue
    total_count,    \* total_bundle_count
    IS_QUAD_STASH,  \* the double-size flag
    in_chan,        \* the capacity-1 mailbox (in_send, in_recv)
    data_chan,      \* the unbounded result channel (data_send, data_recv)
    inflight,       \* the fetches the fetch worker is executing
    recv,           \* the coordinator's inbound queue
    handling,       \* the RequestStashStatus being handled, between its
                    \* try_send and its drain
    lock,           \* owner of the NET_THREAD_SENDER mutex (0: free)
    reply,          \* the response channel of the request of the lock owner
    remote,         \* the content of the remote stash (index in Snapshots)
    nreq,           \* requests issued
    nfetch,         \* fetches initiated
    map_fid,        \* history: the fetch whose result is cached in map (0: none)
    last,           \* history: the last request handled
    fetches,        \* history: what became of each fetch result
    delivered,      \* history: the bundles handed out since the last rebuild
    run             \* a generator run on its own (GenSpec)

vars ==
    <<map, chaos_queue, total_count, IS_QUAD_STASH, in_chan, data_chan,
      inflight, recv, handling, lock, reply, remote, nreq, nfetch, map_fid,
      last, fetches, delivered, run>>

NoRun == [active |-> FALSE]

NoSignal == [pending |-> FALSE, running |-> FALSE, accepted |-> FALSE]

\* the coordinator before its first request
CoordInit ==
    /\ map = EmptyMap
    /\ chaos_queue = Generate(EmptyMap)
    /\ total_count = Len(Generate(EmptyMap))
    /\ IS_QUAD_STASH = FALSE
    /\ in_chan = <<>>
    /\ data_chan = <<>>
    /\ inflight = {}
    /\ recv = <<>>
    /\ handling = None
    /\ lock = 0
    /\ reply = <<>>
    /\ remote = 1
    /\ nreq = 0
    /\ nfetch = 0
    /\ map_fid = 0
    /\ last = [kind |-> "none"]
    /\ fetches = <<>>
    /\ delivered = <<>>

Init == CoordInit /\ run = NoRun

(***************************************************************************)
(* Callers: acquire_chaos_list.  The caller holds the NET_THREAD_SENDER    *)
(* guard from the send until it returns, and returns when the response     *)
(* channel is closed (the coordinator dropped the request's sender).       *)
(***************************************************************************)
acquire_chaos_list(requre_whole) ==
    /\ lock = 0
    /\ nreq < MaxRequests
    /\ nreq' = nreq + 1
    /\ lock' = nreq + 1
    /\ reply' = <<>>
    /\ recv' = Append(recv,
                      [kind |-> IF requre_whole THEN "RequestStashStatus"
                                ELSE "RequestChaosRecipe",
                       rid |-> nreq + 1])
    /\ UNCHANGED <<map, chaos_queue, total_count, IS_QUAD_STASH, in_chan,
                   data_chan, inflight, handling, remote, nfetch, map_fid,
                   last, fetches,
                   delivered, run>>

SenderDropped(rid) ==
    /\ \A i \in 1..Len(recv) : recv[i].rid # rid
    /\ ~(handling.some /\ handling.msg.rid = rid)

\* receiver.iter().last() returns
acquire_return ==
    /\ lock # 0
    /\ SenderDropped(lock)
    /\ lock' = 0
    /\ UNCHANGED <<map, chaos_queue, total_count, IS_QUAD_STASH, in_chan,
                   data_chan, inflight, recv, handling, reply, remote, nreq,
                   nfetch, map_fid, last, fetches,
                   delivered, run>>

(***************************************************************************)
(* The fetch worker: for _ in in_recv.iter() { ... }                       *)
(***************************************************************************)
\* a worker that starts every fetch on a thread of its own
WorkerAlwaysReady == TRUE

\* the worker thread is at in_recv.iter(), executing no fetch
WorkerIdle == inflight = {}

WorkerRecv ==
    /\ WorkerIdle
    /\ in_chan # <<>>
    /\ in_chan' = Tail(in_chan)
    /\ nfetch' = nfetch + 1
    /\ inflight' = inflight \cup
                   {[fid |-> nfetch + 1, by |-> Head(in_chan).by,
                     sig |-> Head(in_chan).sig, stage |-> "fetching"]}
    /\ UNCHANGED <<map, chaos_queue, total_count, IS_QUAD_STASH, data_chan,
                   recv, handling, lock, reply, remote, nreq, map_fid, last,
                   fetches,
                   delivered, run>>

\* as FetchOk, but the flag of the snapshot is not stored
FetchOk_noflag ==
    \E f \in inflight :
        /\ f.stage = "fetching"
        /\ DeserializeStash(Snapshots[remote]).ok
        /\ LET stash_data == DeserializeStash(Snapshots[remote])
           IN  inflight' = (inflight \ {f}) \cup
                           {[fid |-> f.fid, by |-> f.by, sig |-> f.sig,
                             stage |-> "fetched", snap |-> remote,
                             items |-> stash_data.items]}
        /\ UNCHANGED <<map, chaos_queue, total_count, IS_QUAD_STASH, in_chan,
                       data_chan, recv, handling, lock, reply, remote, nreq,
                       nfetch, map_fid, last, fetches, delivered, run>>

\* get_stash_data_in returns Ok: the flag is stored before classification
FetchOk ==
    \E f \in inflight :
        /\ f.stage = "fetching"
        /\ DeserializeStash(Snapshots[remote]).ok
        /\ LET stash_data == DeserializeStash(Snapshots[remote])
           IN  /\ IS_QUAD_STASH' = stash_data.quad_layout
               /\ inflight' = (inflight \ {f}) \cup
                              {[fid |-> f.fid, by |-> f.by, sig |-> f.sig,
                                stage |-> "fetched", snap |-> remote,
                                items |-> stash_data.items]}
        /\ UNCHANGED <<map, chaos_queue, total_count, in_chan, data_chan, recv,
                       handling, lock, reply, remote, nreq, nfetch, map_fid,
                       last, fetches,
                       delivered, run>>

NewFetch(f, ok) ==
    [fid |-> f.fid, by |-> f.by, ok |-> ok, fate |-> "queued", reports |-> 0,
     applied |-> FALSE]

\* as FetchErr, but the worker starts the fetch again after sending the error
FetchErr_retry ==
    \E f \in inflight, transport \in BOOLEAN :
        /\ f.stage = "fetching"
        /\ transport \/ ~DeserializeStash(Snapshots[remote]).ok
        /\ data_chan' = Append(data_chan,
                               [fid |-> f.fid, by |-> f.by, ok |-> FALSE])
        /\ nfetch' = nfetch + 1
        /\ inflight' = (inflight \ {f}) \cup
                       {[fid |-> nfetch + 1, by |-> f.by, sig |-> f.sig,
                         stage |-> "fetching"]}
        /\ fetches' = Append(fetches, NewFetch(f, FALSE))
        /\ UNCHANGED <<map, chaos_queue, total_count, IS_QUAD_STASH, in_chan,
                       recv, handling, lock, reply, remote, nreq, map_fid,
                       last, delivered, run>>

\* get_stash_data_in returns Err (transport, status, or a record that does
\* not deserialize): data_send.send(Err(e))
FetchErr ==
    \E f \in inflight, transport \in BOOLEAN :
        /\ f.stage = "fetching"
        /\ transport \/ ~DeserializeStash(Snapshots[remote]).ok
        /\ data_chan' = Append(data_chan,
                               [fid |-> f.fid, by |-> f.by, ok |-> FALSE])
        /\ inflight' = inflight \ {f}
        /\ fetches' = Append(fetches, NewFetch(f, FALSE))
        /\ UNCHANGED <<map, chaos_queue, total_count, IS_QUAD_STASH, in_chan,
                       recv, handling, lock, reply, remote, nreq, nfetch,
                       map_fid, last,
                       delivered, run>>

\* the classification loop and data_send.send(Ok(map))
WorkerSend ==
    \E f \in inflight :
        /\ f.stage = "fetched"
        /\ data_chan' = Append(data_chan,
                               [fid |-> f.fid, by |-> f.by, ok |-> TRUE,
                                snap |-> f.snap, map |-> Classify(f.items)])
        /\ inflight' = inflight \ {f}
        /\ fetches' = Append(fetches, NewFetch(f, TRUE))
        /\ UNCHANGED <<map, chaos_queue, total_count, IS_QUAD_STASH, in_chan,
                       recv, handling, lock, reply, remote, nreq, nfetch,
                       map_fid, last,
                       delivered, run>>

\* the remote stash changes; only a fetch that is reading it can tell
RemoteChange ==
    \E s \in 1..Len(Snapshots) :
        /\ \E f \in inflight : f.stage = "fetching"
        /\ s # remote
        /\ remote' = s
        /\ UNCHANGED <<map, chaos_queue, total_count, IS_QUAD_STASH, in_chan,
                       data_chan, inflight, recv, handling, lock, reply, nreq,
                       nfetch, map_fid, last, fetches,
                       delivered, run>>

(***************************************************************************)
(* The coordinator: for msg in recv.iter() { ... }                         *)
(***************************************************************************)
\* a send that queues the signal whatever the mailbox holds
try_send_unbounded(chan, sig) == Append(chan, sig)

\* a send that never reaches the mailbox
try_send_lost(chan, sig) == chan

\* as try_send, but the mailbox holds one signal more
try_send_roomy(chan, sig) ==
    IF Len(chan) < MailboxCapacity + 1 THEN Append(chan, sig) ELSE chan

\* in_send.try_send(()): a full mailbox discards the send
try_send(chan, sig) ==
    IF Len(chan) < MailboxCapacity THEN Append(chan, sig) ELSE chan

\* a drain that acts on the oldest result
try_iter_first(chan) ==
    IF chan = <<>> THEN None ELSE [some |-> TRUE, val |-> chan[1]]

\* data_recv.try_iter().last(): the result acted on
try_iter_last(chan) ==
    IF chan = <<>> THEN None ELSE [some |-> TRUE, val |-> chan[Len(chan)]]

\* a drain that leaves the results in the channel
try_iter_keep(chan) == chan

\* data_recv.try_iter().last(): what the channel holds afterwards
try_iter_rest(chan) == <<>>

\* a drain that waits for a result, as data_recv.iter() would
iter_ready(chan) == chan # <<>>

\* data_recv.try_iter() never blocks
try_iter_ready(chan) == TRUE

StashStatus(m, count) == [kind |-> "StashStatus", map |-> m, count |-> count]

ChaosRecipe(list, quad) == [kind |-> "ChaosRecipe", list |-> list, quad |-> quad]

Failure(fid) == [kind |-> "Err", fid |-> fid]

\* the outcome of a RequestStashStatus that leaves the cache as it is
Keep(cur_map, cur_queue, cur_total, resp) ==
    [map |-> cur_map, queue |-> cur_queue, total |-> cur_total, installed |-> 0,
     resp |-> resp]

\* the outcome of a RequestStashStatus that installs new_map, of fetch fid
Rebuild(new_map, fid) ==
    CHOOSE out \in
        { [map |-> new_map, queue |-> queue, total |-> Len(queue),
           installed |-> fid, resp |-> StashStatus(new_map, Len(queue))] :
          queue \in {Generate(new_map)} } : TRUE

\* as StatusOutcome, but the count is taken from the queue on every request
StatusOutcome_recount(recv_result, cur_map, cur_queue, cur_total) ==
    IF recv_result.some /\ recv_result.val.ok
    THEN IF recv_result.val.map # cur_map
         THEN Rebuild(recv_result.val.map, recv_result.val.fid)
         ELSE Keep(cur_map, cur_queue, cur_total, StashStatus(cur_map, cur_total))
    ELSE IF recv_result.some
    THEN Keep(cur_map, cur_queue, cur_total, Failure(recv_result.val.fid))
    ELSE Keep(cur_map, cur_queue, Len(cur_queue),
              StashStatus(cur_map, Len(cur_queue)))

\* as StatusOutcome, but a new inventory does not rebuild the queue
StatusOutcome_norebuild(recv_result, cur_map, cur_queue, cur_total) ==
    IF recv_result.some /\ recv_result.val.ok
    THEN IF recv_result.val.map # cur_map
         THEN [map |-> recv_result.val.map, queue |-> cur_queue,
               total |-> Len(cur_queue), installed |-> recv_result.val.fid,
               resp |-> StashStatus(recv_result.val.map, Len(cur_queue))]
         ELSE Keep(cur_map, cur_queue, cur_total, StashStatus(cur_map, cur_total))
    ELSE IF recv_result.some
    THEN Keep(cur_map, cur_queue, cur_total, Failure(recv_result.val.fid))
    ELSE Keep(cur_map, cur_queue, cur_total, StashStatus(cur_map, cur_total))

\* as StatusOutcome, but without the test new_map != map
StatusOutcome_always(recv_result, cur_map, cur_queue, cur_total) ==
    IF recv_result.some /\ recv_result.val.ok
    THEN Rebuild(recv_result.val.map, recv_result.val.fid)
    ELSE IF recv_result.some
    THEN Keep(cur_map, cur_queue, cur_total, Failure(recv_result.val.fid))
    ELSE Keep(cur_map, cur_queue, cur_total, StashStatus(cur_map, cur_total))

\* as StatusOutcome, but a failed fetch empties the cache
StatusOutcome_clear(recv_result, cur_map, cur_queue, cur_total) ==
    IF recv_result.some /\ recv_result.val.ok
    THEN IF recv_result.val.map # cur_map
         THEN Rebuild(recv_result.val.map, recv_result.val.fid)
         ELSE Keep(cur_map, cur_queue, cur_total, StashStatus(cur_map, cur_total))
    ELSE IF recv_result.some
    THEN Keep(EmptyMap, <<>>, 0, Failure(recv_result.val.fid))
    ELSE Keep(cur_map, cur_queue, cur_total, StashStatus(cur_map, cur_total))

\* as StatusOutcome, but a failed fetch is answered from the cache
StatusOutcome_swallow(recv_result, cur_map, cur_queue, cur_total) ==
    IF recv_result.some /\ recv_result.val.ok
    THEN IF recv_result.val.map # cur_map
         THEN Rebuild(recv_result.val.map, recv_result.val.fid)
         ELSE Keep(cur_map, cur_queue, cur_total, StashStatus(cur_map, cur_total))
    ELSE Keep(cur_map, cur_queue, cur_total, StashStatus(cur_map, cur_total))

\* as StatusOutcome, but a rebuild is answered with the cache it replaces
StatusOutcome_stale(recv_result, cur_map, cur_queue, cur_total) ==
    IF recv_result.some /\ recv_result.val.ok
    THEN IF recv_result.val.map # cur_map
         THEN [Rebuild(recv_result.val.map, recv_result.val.fid)
                   EXCEPT !.resp = StashStatus(cur_map, cur_total)]
         ELSE Keep(cur_map, cur_queue, cur_total, StashStatus(cur_map, cur_total))
    ELSE IF recv_result.some
    THEN Keep(cur_map, cur_queue, cur_total, Failure(recv_result.val.fid))
    ELSE Keep(cur_map, cur_queue, cur_total, StashStatus(cur_map, cur_total))

\* match recv_result { ... } of RequestStashStatus
StatusOutcome(recv_result, cur_map, cur_queue, cur_total) ==
    IF recv_result.some /\ recv_result.val.ok
    THEN IF recv_result.val.map # cur_map
         THEN Rebuild(recv_result.val.map, recv_result.val.fid)
         ELSE Keep(cur_map, cur_queue, cur_total, StashStatus(cur_map, cur_total))
    ELSE IF recv_result.some
    THEN Keep(cur_map, cur_queue, cur_total, Failure(recv_result.val.fid))
    ELSE Keep(cur_map, cur_queue, cur_total, StashStatus(cur_map, cur_total))

\* as BundleOutcome, but an empty queue is answered with a failure
BundleOutcome_err(cur_queue, is_quad_stash) ==
    IF cur_queue # <<>>
    THEN [queue |-> Tail(cur_queue),
          resp |-> ChaosRecipe(Head(cur_queue), is_quad_stash)]
    ELSE [queue |-> cur_queue, resp |-> Failure(0)]

\* as BundleOutcome, but the bundle is taken from the back of the queue
BundleOutcome_back(cur_queue, is_quad_stash) ==
    IF cur_queue # <<>>
    THEN [queue |-> SubSeq(cur_queue, 1, Len(cur_queue) - 1),
          resp |-> ChaosRecipe(cur_queue[Len(cur_queue)], is_quad_stash)]
    ELSE [queue |-> cur_queue, resp |-> ChaosRecipe(<<>>, is_quad_stash)]

\* as BundleOutcome, but the bundle sent stays at the front of the queue
BundleOutcome_peek(cur_queue, is_quad_stash) ==
    IF cur_queue # <<>>
    THEN [queue |-> cur_queue,
          resp |-> ChaosRecipe(Head(cur_queue), is_quad_stash)]
    ELSE [queue |-> cur_queue, resp |-> ChaosRecipe(<<>>, is_quad_stash)]

\* chaos_queue.pop_front() and the response of RequestChaosRecipe
BundleOutcome(cur_queue, is_quad_stash) ==
    IF cur_queue # <<>>
    THEN [queue |-> Tail(cur_queue),
          resp |-> ChaosRecipe(Head(cur_queue), is_quad_stash)]
    ELSE [queue |-> cur_queue, resp |-> ChaosRecipe(<<>>, is_quad_stash)]

Pre == [map |-> map, queue |-> chaos_queue, total |-> total_count]

\* as RequestChaosRecipe, but the request also signals a refresh
RequestChaosRecipe_refresh ==
    /\ ~handling.some
    /\ recv # <<>>
    /\ Head(recv).kind = "RequestChaosRecipe"
    /\ LET msg == Head(recv)
           out == BundleOutcome(chaos_queue, IS_QUAD_STASH)
           sig == [pending |-> in_chan # <<>>, running |-> inflight # {}]
       IN  /\ chaos_queue' = out.queue
           /\ reply' = Append(reply, out.resp)
           /\ in_chan' = try_send(in_chan, [by |-> msg.rid, sig |-> sig])
           /\ last' = [kind |-> msg.kind, rid |-> msg.rid, pre |-> Pre,
                       sig |-> NoSignal, drained |-> <<>>, resp |-> out.resp]
           /\ delivered' = IF chaos_queue # <<>>
                            THEN Append(delivered, out.resp.list)
                            ELSE delivered
    /\ recv' = Tail(recv)
    /\ UNCHANGED <<map, total_count, IS_QUAD_STASH, data_chan, inflight,
                   handling, lock, remote, nreq, nfetch, map_fid, fetches,
                   run>>

RequestChaosRecipe ==
    /\ ~handling.some
    /\ recv # <<>>
    /\ Head(recv).kind = "RequestChaosRecipe"
    /\ LET msg == Head(recv)
           out == BundleOutcome(chaos_queue, IS_QUAD_STASH)
       IN  /\ chaos_queue' = out.queue
           /\ reply' = Append(reply, out.resp)
           /\ last' = [kind |-> msg.kind, rid |-> msg.rid, pre |-> Pre,
                       sig |-> NoSignal, drained |-> <<>>, resp |-> out.resp]
           /\ delivered' = IF chaos_queue # <<>>
                            THEN Append(delivered, out.resp.list)
                            ELSE delivered
    /\ recv' = Tail(recv)
    /\ UNCHANGED <<map, total_count, IS_QUAD_STASH, in_chan, data_chan, inflight,
                   handling, lock, remote, nreq, nfetch, map_fid, fetches,
                   run>>

\* RequestStashStatus up to in_send.try_send(()).ok()
RequestStashStatus_signal ==
    /\ ~handling.some
    /\ recv # <<>>
    /\ Head(recv).kind = "RequestStashStatus"
    /\ LET msg == Head(recv)
           sig == [pending |-> in_chan # <<>>, running |-> inflight # {}]
       IN  /\ in_chan' = try_send(in_chan, [by |-> msg.rid, sig |-> sig])
           /\ handling' = [some |-> TRUE, msg |-> msg,
                           sig |-> [pending |-> sig.pending,
                                    running |-> sig.running,
                                    accepted |-> in_chan' # in_chan]]
    /\ recv' = Tail(recv)
    /\ UNCHANGED <<map, chaos_queue, total_count, IS_QUAD_STASH, data_chan,
                   inflight, lock, reply, remote, nreq, nfetch, map_fid, last,
                   fetches,
                   delivered, run>>

\* history: what the handled request did with the results it found
Drain(fs, drained, out) ==
    [i \in 1..Len(fs) |->
        IF \E k \in 1..Len(drained) : drained[k].fid = fs[i].fid
        THEN [fs[i] EXCEPT
                !.fate = IF drained[Len(drained)].fid = fs[i].fid
                         THEN "latest" ELSE "superseded",
                !.reports = @ + (IF out.resp = Failure(fs[i].fid) THEN 1 ELSE 0),
                !.applied = @ \/ out.installed = fs[i].fid]
        ELSE fs[i]]

\* RequestStashStatus from data_recv.try_iter().last() to the response
RequestStashStatus_drain ==
    /\ handling.some
    /\ try_iter_ready(data_chan)
    /\ LET msg == handling.msg
           out == StatusOutcome(try_iter_last(data_chan), map, chaos_queue,
                                total_count)
       IN  /\ map' = out.map
           /\ chaos_queue' = out.queue
           /\ total_count' = out.total
           /\ map_fid' = IF out.installed # 0 THEN out.installed ELSE map_fid
           /\ reply' = Append(reply, out.resp)
           /\ last' = [kind |-> msg.kind, rid |-> msg.rid, pre |-> Pre,
                       sig |-> handling.sig, drained |-> data_chan,
                       resp |-> out.resp]
           /\ delivered' = IF out.installed # 0 THEN <<>> ELSE delivered
           /\ fetches' = Drain(fetches, data_chan, out)
    /\ data_chan' = try_iter_rest(data_chan)
    /\ handling' = None
    /\ UNCHANGED <<IS_QUAD_STASH, in_chan, inflight, recv, lock, remote, nreq,
                   nfetch,
                   run>>

Coordinator ==
    RequestChaosRecipe \/ RequestStashStatus_signal \/ RequestStashStatus_drain

Next ==
    \/ \E requre_whole \in BOOLEAN : acquire_chaos_list(requre_whole)
    \/ acquire_return
    \/ WorkerRecv
    \/ FetchOk
    \/ FetchErr
    \/ WorkerSend
    \/ RemoteChange
    \/ RequestChaosRecipe
    \/ RequestStashStatus_signal
    \/ RequestStashStatus_drain

Spec == Init /\ [][Next]_vars

\* the coordinator thread keeps running; nothing is assumed of the fetch
\* worker, which may stay blocked in the network call
CoordSpec == Init /\ [][Next]_vars /\ WF_vars(Coordinator)

(***************************************************************************)
(* Properties of the cache coordinator.                                    *)
(***************************************************************************)
StatusHandled == last.kind = "RequestStashStatus"

\* the result the last request acted on, when it drained any
Latest == last.drained[Len(last.drained)]

CacheUnchanged ==
    /\ map = last.pre.map
    /\ chaos_queue = last.pre.queue
    /\ total_count = last.pre.total

\* the refresh signals whose fate is still on record
SignalsSent ==
    (IF handling.some THEN {handling.sig} ELSE {})
        \cup (IF StatusHandled THEN {last.sig} ELSE {})

\* C1, as stated: a refresh signal sent while a refresh is pending in the
\* mailbox or running in the fetch worker is dropped and starts no fetch.
C1_DroppedWhilePendingOrRunning ==
    /\ \A sg \in SignalsSent : (sg.pending \/ sg.running) => ~sg.accepted
    /\ \A f \in inflight : ~(f.sig.pending \/ f.sig.running)

\* C1, amended: a refresh signal sent while a signal is pending in the
\* mailbox is dropped and starts no fetch; a signal sent while the mailbox is
\* empty is queued, also when a fetch is running, and the mailbox never holds
\* more than one signal.
C1_DroppedWhilePending ==
    /\ \A sg \in SignalsSent : sg.pending <=> ~sg.accepted
    /\ \A f \in inflight : ~f.sig.pending
    /\ Len(in_chan) <= MailboxCapacity

\* a signal was dropped, and another one was queued behind a running fetch
C1_Witness ==
    /\ handling.some /\ handling.sig.pending /\ ~handling.sig.accepted
    /\ StatusHandled /\ last.sig.running /\ last.sig.accepted

\* C2: at most one outbound fetch is in flight in every reachable state.
C2_OneFetchInFlight == Cardinality(inflight) <= 1

\* a fetch is in flight while a further refresh signal waits in the mailbox
\* and an earlier result waits in the result channel
C2_Witness == inflight # {} /\ in_chan # <<>> /\ data_chan # <<>>

\* C3: every request received gets exactly one response, also when the
\* fetch worker never completes a fetch: the response channel of a request
\* never holds two responses, a caller returns with one response, and a
\* caller that waits is eventually answered (reply is emptied by the next
\* request, so the answer is the one to the request waited for).
C3_ExactlyOneResponse ==
    /\ [](Len(reply) <= 1)
    /\ [][lock # 0 /\ lock' = 0 => Len(reply) = 1]_vars
    /\ (lock # 0) ~> (lock # 0 /\ Len(reply) = 1)

\* a RequestStatus was answered while the fetch its own signal started is
\* still blocked on the network
C3_Witness ==
    /\ StatusHandled /\ lock = last.rid /\ Len(reply) = 1
    /\ \E f \in inflight : f.stage = "fetching" /\ f.by = last.rid

\* C4: a RequestStatus that finds no fetch result answers with the cached
\* inventory and count and leaves inventory, queue and count unchanged.
C4_StaleWhileRevalidate ==
    (StatusHandled /\ last.drained = <<>>) =>
        /\ last.resp = StashStatus(last.pre.map, last.pre.total)
        /\ CacheUnchanged

\* no result was found, the cache holds an inventory and bundles were popped
C4_Witness ==
    /\ StatusHandled /\ last.drained = <<>>
    /\ last.pre.map # EmptyMap
    /\ Len(last.pre.queue) < last.pre.total

\* C5: a RequestStatus that drains a successful result differing from the
\* inventory installs it, rebuilds the queue as the generated sequence, sets
\* the count to its length and answers with the new inventory and count.
C5_RebuildOnChange ==
    (StatusHandled /\ last.drained # <<>> /\ Latest.ok
        /\ Latest.map # last.pre.map) =>
        /\ map = Latest.map
        /\ chaos_queue = Generate(Latest.map)
        /\ total_count = Len(Generate(Latest.map))
        /\ last.resp = StashStatus(Latest.map, Len(Generate(Latest.map)))

\* a differing result replaced a partly consumed queue by a new bundle
C5_Witness ==
    /\ StatusHandled /\ last.drained # <<>> /\ Latest.ok
    /\ Latest.map # last.pre.map
    /\ last.pre.queue # <<>> /\ Len(last.pre.queue) < last.pre.total
    /\ chaos_queue # <<>> /\ chaos_queue # last.pre.queue

\* C6: a RequestStatus that drains a successful result identical to the
\* inventory leaves the queue and the count unchanged.
C6_IdenticalKeepsQueue ==
    (StatusHandled /\ last.drained # <<>> /\ Latest.ok
        /\ Latest.map = last.pre.map) =>
        /\ CacheUnchanged
        /\ last.resp = StashStatus(last.pre.map, last.pre.total)

\* an identical result arrived after a bundle was popped
C6_Witness ==
    /\ StatusHandled /\ last.drained # <<>> /\ Latest.ok
    /\ Latest.map = last.pre.map
    /\ last.pre.queue # <<>>
    /\ Len(last.pre.queue) < last.pre.total

\* C7: a RequestStatus that consumes a failure answers with the failure and
\* leaves inventory, queue and count unchanged.
C7_FailureKeepsCache ==
    (StatusHandled /\ last.drained # <<>> /\ ~Latest.ok) =>
        /\ last.resp = Failure(Latest.fid)
        /\ CacheUnchanged

\* a failure was consumed while the cache held an inventory and bundles
C7_Witness ==
    /\ StatusHandled /\ last.drained # <<>> /\ ~Latest.ok
    /\ last.pre.map # EmptyMap
    /\ chaos_queue # <<>>

\* C8, as stated: a fetch failure is the response of the RequestStatus whose
\* refresh signal started that fetch.
C8_FailureToTrigger ==
    (StatusHandled /\ last.resp.kind = "Err") =>
        /\ last.drained # <<>>
        /\ Latest.fid = last.resp.fid
        /\ Latest.by = last.rid

\* C8, amended: a fetch failure is the response of the RequestStatus that
\* drains it as the most recent result, which is the request whose signal
\* started the fetch or a later request.
C8_FailureToObserver ==
    /\ (StatusHandled /\ last.resp.kind = "Err") =>
        /\ last.drained # <<>>
        /\ Latest.fid = last.resp.fid
        /\ ~Latest.ok
        /\ Latest.by <= last.rid
    /\ (StatusHandled /\ last.drained # <<>> /\ ~Latest.ok) =>
        last.resp.kind = "Err"

\* a failure was delivered to a request later than the one that started it
C8_Witness ==
    /\ StatusHandled /\ last.resp.kind = "Err"
    /\ Latest.by < last.rid

FetchIds == 1..Len(fetches)

\* C9, as stated: every failed fetch whose result a RequestStatus has
\* drained is reported by exactly one response.
C9_FailureExactlyOnce ==
    \A i \in FetchIds :
        (~fetches[i].ok /\ fetches[i].fate # "queued") => fetches[i].reports = 1

\* C9, amended: a failed fetch is reported by at most one response: by
\* exactly one when it is the most recent result at the drain that removes
\* it, by none when a later result is in the channel at that drain.
C9_FailureAtMostOnce ==
    \A i \in FetchIds :
        ~fetches[i].ok =>
            /\ fetches[i].fate = "latest" => fetches[i].reports = 1
            /\ fetches[i].fate # "latest" => fetches[i].reports = 0

\* a failure was reported, and a later RequestStatus did not report it again
C9_Witness ==
    /\ StatusHandled /\ last.resp.kind = "StashStatus"
    /\ \E i \in FetchIds :
          ~fetches[i].ok /\ fetches[i].fate = "latest" /\ fetches[i].reports = 1

\* C10: a RequestStatus that finds several results acts on the most recent
\* one only; the earlier ones are never applied to the cache nor reported,
\* and none of the results found stays in the channel.
C10_LatestOnly ==
    /\ (StatusHandled /\ Len(last.drained) >= 2) =>
          IF Latest.ok
          THEN map = Latest.map /\ last.resp = StashStatus(map, total_count)
          ELSE last.resp = Failure(Latest.fid) /\ CacheUnchanged
    /\ \A i \in FetchIds :
          fetches[i].fate = "superseded" =>
              /\ fetches[i].reports = 0
              /\ ~fetches[i].applied
              /\ map_fid # fetches[i].fid
    /\ \A i \in FetchIds, k \in 1..Len(data_chan) :
          data_chan[k].fid = fetches[i].fid => fetches[i].fate = "queued"

\* two results were found: a failure superseded by a successful result that
\* differs from the inventory
C10_Witness ==
    /\ StatusHandled /\ Len(last.drained) = 2
    /\ ~last.drained[1].ok
    /\ Latest.ok /\ Latest.map # last.pre.map


(***************************************************************************)
(* Two requests handled one after the other: the step that handles the     *)
(* second changes last from the record of the first to the record of the   *)
(* second.  The fetch results that arrived between the two drains are the  *)
(* ones the second drained.                                                *)
(***************************************************************************)
StatusAfterStatus ==
    /\ last' # last
    /\ last.kind = "RequestStashStatus"
    /\ last'.kind = "RequestStashStatus"

NoSuccessBetween == \A k \in 1..Len(last'.drained) : ~last'.drained[k].ok

\* C11, as stated: two RequestStatus requests handled in immediate
\* succession, with no successful fetch result arriving between them, both
\* return the same cached content.
C11_SameContent ==
    [][(StatusAfterStatus /\ NoSuccessBetween) =>
           /\ last'.resp.kind = "StashStatus"
           /\ last'.resp = last.resp]_vars

\* C11, amended: two RequestStatus requests handled in immediate succession,
\* with no successful fetch result arriving between them, see the same cache:
\* the second leaves the cache as the first left it, each of the two that
\* answers with a snapshot answers with that cache, and the second answers
\* with a failure instead exactly when a failed result arrived in between.
C11_SameContentOrFailure ==
    [][(StatusAfterStatus /\ NoSuccessBetween) =>
           /\ map' = map
           /\ chaos_queue' = chaos_queue
           /\ total_count' = total_count
           /\ last'.resp =
                  IF last'.drained = <<>>
                  THEN StashStatus(map, total_count)
                  ELSE Failure(last'.drained[Len(last'.drained)].fid)
           /\ last.resp.kind = "StashStatus" =>
                  last.resp = StashStatus(map, total_count)]_vars

\* the first two requests of a run were RequestStatus requests; the second
\* found no result at all and was answered from a non-empty cache, which
\* the first had installed and answered with
C11_Witness ==
    /\ StatusHandled
    /\ last.rid = 2
    /\ Len(fetches) = 1
    /\ fetches[1].by = 1
    /\ last.drained = <<>>
    /\ map # EmptyMap
    /\ map = last.pre.map
    /\ last.resp = StashStatus(map, total_count)

BundleHandled == last.kind = "RequestChaosRecipe"

\* the step that handles a RequestBundle (each request has its own rid)
BundleStep == last' # last /\ last'.kind = "RequestChaosRecipe"

\* item is one of the entries of the classified inventory m
InInventory(item, m) ==
    /\ item.itype \in DOMAIN m
    /\ \E side \in 1..2 : \E i \in 1..Len(m[item.itype][side]) :
           m[item.itype][side][i] = item

\* C12: the step that handles a RequestBundle sends no refresh signal, takes
\* nothing from the fetch-result channel, starts no fetch and leaves
\* current_inventory and total_bundle_count as they were; it removes the
\* front of bundle_queue when the queue is non-empty and changes nothing
\* otherwise.  The items of a delivered bundle are still in the inventory a
\* following RequestStatus returns from the same cache.
C12_BundleFrame ==
    /\ [][BundleStep =>
            /\ in_chan' = in_chan
            /\ data_chan' = data_chan
            /\ inflight' = inflight
            /\ nfetch' = nfetch
            /\ map' = map
            /\ total_count' = total_count
            /\ IS_QUAD_STASH' = IS_QUAD_STASH
            /\ chaos_queue' = IF chaos_queue # <<>>
                              THEN Tail(chaos_queue) ELSE chaos_queue]_vars
    /\ [](BundleHandled => (map = last.pre.map /\ total_count = last.pre.total))
    /\ []((/\ StatusHandled
           /\ last.resp.kind = "StashStatus"
           /\ map = last.pre.map) =>
              \A b \in 1..Len(delivered) : \A i \in 1..Len(delivered[b]) :
                  InInventory(delivered[b][i], last.resp.map))

\* a bundle was popped from a queue of two by a RequestBundle handled while
\* a fetch result was waiting in the channel, and the result is still there
C12_Witness ==
    /\ BundleHandled
    /\ Len(last.pre.queue) = 2
    /\ chaos_queue = Tail(last.pre.queue)
    /\ last.resp.list = Head(last.pre.queue)
    /\ data_chan # <<>>
    /\ map = last.pre.map

\* C13: a RequestBundle handled on an empty bundle_queue is answered with a
\* success response carrying an empty bundle and the value is_double_stash
\* had at that moment, never with a failure, and it leaves the queue empty;
\* this includes the first request of a run and a request that follows a
\* failed fetch.
C13_EmptyQueueEmptyBundle ==
    /\ [][(BundleStep /\ chaos_queue = <<>>) =>
              /\ last'.resp = ChaosRecipe(<<>>, IS_QUAD_STASH)
              /\ chaos_queue' = <<>>]_vars
    /\ []((BundleHandled /\ last.pre.queue = <<>>) =>
              /\ last.resp.kind = "ChaosRecipe"
              /\ last.resp.list = <<>>
              /\ chaos_queue = <<>>)

\* a RequestBundle on the empty queue after a failed fetch was reported
\* and before any inventory was installed, answered with the flag a later
\* fetch has set meanwhile
C13_Witness ==
    /\ BundleHandled
    /\ last.pre.queue = <<>>
    /\ last.pre.map = EmptyMap
    /\ \E i \in 1..Len(fetches) : ~fetches[i].ok /\ fetches[i].reports = 1
    /\ last.resp = ChaosRecipe(<<>>, TRUE)

\* the very first request of a run is a RequestBundle
C13_InitialRequest ==
    /\ BundleHandled
    /\ last.rid = 1
    /\ nfetch = 0
    /\ last.resp = ChaosRecipe(<<>>, FALSE)

\* C14: total_bundle_count is the count taken at the last rebuild.  A
\* RequestBundle leaves it as it was, and a RequestStatus that installs no
\* new inventory reports the count as it stood before, however many bundles
\* have been popped from the queue since the rebuild.
C14_CountIsSnapshot ==
    /\ BundleHandled => total_count = last.pre.total
    /\ (StatusHandled /\ last.resp.kind = "StashStatus" /\ map = last.pre.map) =>
           last.resp.count = last.pre.total

\* a RequestStatus handled after a bundle was popped since the rebuild,
\* which found no differing result and reports more bundles than the queue
\* still holds
C14_Witness ==
    /\ StatusHandled
    /\ delivered # <<>>
    /\ map = last.pre.map
    /\ last.resp = StashStatus(map, last.pre.total)
    /\ Len(chaos_queue) < last.resp.count

\* C15: the bundles handed out by the RequestBundle requests since the last
\* rebuild, in the order they were handed out, followed by the bundles still
\* queued, are the sequence the generator yields for the cached inventory;
\* no bundle has been handed out twice, and a RequestBundle that finds the
\* queue non-empty is answered with the bundle handed out last.
C15_InOrderAtMostOnce ==
    /\ BundleHandled => delivered \o chaos_queue = Generate(map)
    /\ Len(delivered) + Len(chaos_queue) = total_count
    /\ \A i, j \in 1..Len(delivered) : delivered[i] = delivered[j] => i = j
    /\ (BundleHandled /\ last.pre.queue # <<>>) =>
           last.resp.list = delivered[Len(delivered)]

\* both bundles of a queue of two have been handed out, in order
C15_Witness ==
    /\ BundleHandled
    /\ Len(last.pre.queue) = 1
    /\ Len(delivered) = 2
    /\ delivered = Generate(map)
    /\ chaos_queue = <<>>

\* the requests whose refresh signal is waiting in the mailbox, those whose
\* fetch is running, and those whose fetch has ended
PendingBy == { in_chan[i].by : i \in 1..Len(in_chan) }

RunningBy == { f.by : f \in inflight }

EndedBy == { fetches[i].by : i \in 1..Len(fetches) }

\* C16: every fetch initiated, and every refresh signal waiting in the
\* mailbox, belongs to a RequestStatus request of its own that has been
\* processed, so the fetches initiated never outnumber the RequestStatus
\* requests processed.  A refresh signal enters the mailbox only in the
\* step that processes a RequestStatus, and a fetch starts only in a step of
\* the fetch worker that takes a signal out of the mailbox, which is neither
\* the handling of a request nor the completion of a fetch.
C16_NoRetry ==
    /\ [](/\ Cardinality(PendingBy \cup RunningBy \cup EndedBy)
               = Len(in_chan) + nfetch
           /\ nfetch = Cardinality(inflight) + Len(fetches)
           /\ \A r \in PendingBy \cup RunningBy \cup EndedBy :
                  r \in 1..nreq /\ \A i \in 1..Len(recv) : recv[i].rid # r)
    /\ [][Len(in_chan') > Len(in_chan) =>
            /\ recv # <<>>
            /\ Head(recv).kind = "RequestStashStatus"
            /\ recv' = Tail(recv)
            /\ in_chan' = Append(in_chan, in_chan'[Len(in_chan')])
            /\ in_chan'[Len(in_chan')].by = Head(recv).rid]_vars
    /\ [][nfetch' # nfetch =>
            /\ nfetch' = nfetch + 1
            /\ in_chan # <<>>
            /\ in_chan' = Tail(in_chan)
            /\ last' = last
            /\ data_chan' = data_chan
            /\ fetches' = fetches]_vars

\* the first two requests were RequestStatus requests and started one fetch
\* each, the first fetch failed and its failure was reported, and a
\* RequestBundle was handled since: no third fetch is running or pending
C16_Witness ==
    /\ BundleHandled
    /\ last.rid = 3
    /\ nfetch = 2
    /\ Len(fetches) = 2
    /\ fetches[1].by = 1
    /\ fetches[2].by = 2
    /\ ~fetches[1].ok
    /\ fetches[1].reports = 1
    /\ inflight = {}
    /\ in_chan = <<>>

(***************************************************************************)
(* The generator on its own: ChaosListGenerator::new over a classified     *)
(* inventory, then next() until it returns None, as collect() calls it.    *)
(* The inventories are drawn from a family of stashes: a pattern gives,    *)
(* for each item type, how many chaos-tier and how many regal-tier items   *)
(* one copy holds, and a stash holds up to MaxCopies copies of a pattern.  *)
(***************************************************************************)
MaxCopies == 2

\* <<chaos-tier items, regal-tier items>> of one type in one copy
Tiers1 == (0..1) \X (0..1)

Tiers2 == (0..2) \X (0..2)

Patterns ==
    [amulet : Tiers1, armour : Tiers1, ring : Tiers2, w1h : Tiers2, w2h : Tiers1]

\* copies times the pattern's items of one type, numbered from base + 1
ItemsOf(t, tiers, copies, base) ==
    [i \in 1..(copies * (tiers[1] + tiers[2])) |->
        DeserializeItem(Rare(base + i,
                             IF i <= copies * tiers[1]
                             THEN MinItemLevel ELSE RegalItemLevel,
                             t))]

\* the stash items of copies copies of pattern p; every copy also holds a
\* quiver of each tier, which classifies as Useless
Stash(p, copies) ==
    ItemsOf("Amulet", p.amulet, copies, 100)
        \o ItemsOf("Belt", p.armour, copies, 200)
        \o ItemsOf("Body", p.armour, copies, 300)
        \o ItemsOf("Boots", p.armour, copies, 400)
        \o ItemsOf("Gloves", p.armour, copies, 500)
        \o ItemsOf("Helmet", p.armour, copies, 600)
        \o ItemsOf("Ring", p.ring, copies, 700)
        \o ItemsOf("Shield", p.w1h, copies, 800)
        \o ItemsOf("Bow", p.w2h, copies, 900)
        \o ItemsOf("Quiver", <<1, 1>>, copies, 1000)

\* a generator constructed over inventory inv, before the first next();
\* calls and before are history: the number of next() calls made and the
\* cursors the last call started from
StartRun(inv) ==
    [active |-> TRUE, inv |-> inv, gen |-> NewGenerator(inv), out |-> <<>>,
     done |-> FALSE, calls |-> 0, before |-> NewGenerator(inv)]

GenInit ==
    /\ CoordInit
    /\ run \in { StartRun(Classify(Stash(p, copies))) :
                    p \in Patterns, copies \in 1..MaxCopies }

coordvars ==
    <<map, chaos_queue, total_count, IS_QUAD_STASH, in_chan, data_chan,
      inflight, recv, handling, lock, reply, remote, nreq, nfetch, map_fid,
      last, fetches, delivered>>

\* next() returns Some(bundle)
GenYield ==
    /\ run.active
    /\ ~run.done
    /\ GenNext(run.gen).some
    /\ run' = [run EXCEPT !.gen = GenNext(run.gen).gen,
                          !.out = Append(@, GenNext(run.gen).bundle),
                          !.calls = @ + 1,
                          !.before = run.gen]
    /\ UNCHANGED coordvars

\* next() returns None: collect() stops
GenStop ==
    /\ run.active
    /\ ~run.done
    /\ ~GenNext(run.gen).some
    /\ run' = [run EXCEPT !.gen = GenNext(run.gen).gen, !.done = TRUE,
                          !.calls = @ + 1,
                          !.before = run.gen]
    /\ UNCHANGED coordvars

GenStep == GenYield \/ GenStop

GenSpec == GenInit /\ [][GenStep]_vars

Bundles == 1..Len(run.out)

\* C18, as stated: every bundle the generator yields has exactly 9 items.
C18_NineItems == \A b \in Bundles : Len(run.out[b]) = 9

\* C18, amended: every bundle the generator yields has 9 items when its
\* weapon part is one Weapon2H item and 10 items when its weapon part is two
\* Weapon1HOrShield items, and no other number of items.
C18_NineOrTenItems ==
    \A b \in Bundles :
        /\ Len(run.out[b]) \in {9, 10}
        /\ Len(run.out[b]) = 9 <=>
               run.out[b][Len(run.out[b])].itype = "Weapon2H"
        /\ Len(run.out[b]) = 10 <=>
               run.out[b][Len(run.out[b])].itype = "Weapon1HOrShield"

\* a finished run that yielded a bundle of each size
C18_Witness ==
    /\ run.active
    /\ run.done
    /\ \E b \in Bundles : Len(run.out[b]) = 9
    /\ \E b \in Bundles : Len(run.out[b]) = 10

\* the items of bundle b after its first eight
WeaponPart(b) == SubSeq(run.out[b], Len(recipe_without_weapons) + 1, Len(run.out[b]))

\* C19: in every bundle the generator yields, the first 8 items have the
\* types Amulet, Belt, Body, Boots, Gloves, Helmet, Ring, Ring in that
\* order, the items after them are either exactly two Weapon1HOrShield items
\* or exactly one Weapon2H item, and no item is Useless.
C19_BundleShape ==
    \A b \in Bundles :
        /\ Len(run.out[b]) > Len(recipe_without_weapons)
        /\ \A i \in 1..Len(recipe_without_weapons) :
               run.out[b][i].itype = recipe_without_weapons[i]
        /\ \/ /\ Len(WeaponPart(b)) = 2
              /\ WeaponPart(b)[1].itype = "Weapon1HOrShield"
              /\ WeaponPart(b)[2].itype = "Weapon1HOrShield"
           \/ /\ Len(WeaponPart(b)) = 1
              /\ WeaponPart(b)[1].itype = "Weapon2H"
        /\ \A i \in 1..Len(run.out[b]) : run.out[b][i].itype # "Useless"

\* a finished run over an inventory that holds Useless items and one-hand
\* and two-hand weapons, which yielded a bundle with a two-hand weapon after
\* a bundle with two one-hand items
C19_Witness ==
    /\ run.active
    /\ run.done
    /\ "Useless" \in DOMAIN run.inv
    /\ \E b1, b2 \in Bundles :
           /\ b1 < b2
           /\ Len(WeaponPart(b1)) = 2
           /\ Len(WeaponPart(b2)) = 1

\* all the items of the lists of inventory m
ItemsIn(m) ==
    UNION { { m[t][side][i] : i \in 1..Len(m[t][side]) } :
              t \in DOMAIN m, side \in 1..2 }

\* suffix is what is left of list after a cursor advanced over it
IsSuffix(suffix, list) ==
    /\ Len(suffix) <= Len(list)
    /\ suffix = SubSeq(list, Len(list) - Len(suffix) + 1, Len(list))

\* the items the cursor of a list has passed
Passed(t, side) ==
    { run.inv[t][side][i] :
        i \in 1..(Len(run.inv[t][side]) - Len(run.gen[t][side])) }

\* C20: within one generated sequence no item of the inventory is used
\* twice, in one bundle or in two: what is left of every list is a suffix of
\* the list (cursors only advance), and every item of a bundle is an item
\* its list's cursor has passed.  (The items of an inventory are pairwise
\* different, so an item stands for its list position.)
C20_NoItemTwice ==
    /\ [](run.active =>
            /\ \A b1, b2 \in Bundles :
                   \A i \in 1..Len(run.out[b1]), j \in 1..Len(run.out[b2]) :
                       run.out[b1][i] = run.out[b2][j] => (b1 = b2 /\ i = j)
            /\ DOMAIN run.gen = DOMAIN run.inv
            /\ \A t \in DOMAIN run.inv, side \in 1..2 :
                   IsSuffix(run.gen[t][side], run.inv[t][side])
            /\ \A b \in Bundles : \A i \in 1..Len(run.out[b]) :
                   \E side \in 1..2 :
                       run.out[b][i] \in Passed(run.out[b][i].itype, side))
    /\ [][\A t \in DOMAIN run.gen, side \in 1..2 :
               IsSuffix(run.gen'[t][side], run.gen[t][side])]_vars

\* a finished run that yielded four bundles
C20_Witness ==
    /\ run.active
    /\ run.done
    /\ Len(run.out) = 2 * MaxCopies
    /\ Cardinality(ItemsIn(run.inv)) > 20

(***************************************************************************)
(* The last next() call of a run: it started from the cursors run.before   *)
(* and returned Some exactly when the run is not done.                     *)
(***************************************************************************)
Called == run.active /\ run.calls > 0

LastYielded == Called /\ ~run.done

LastBundle == run.out[Len(run.out)]

\* the items of type t the cursors gen have not passed, of one tier
Remaining(gen, t, side) == IF t \in DOMAIN gen THEN gen[t][side] ELSE <<>>

Unconsumed(gen, t) == Len(Remaining(gen, t, 1)) + Len(Remaining(gen, t, 2))

\* the slots of type t among the 8 non-weapon slots
SlotsOf(t) ==
    Cardinality({ i \in 1..Len(recipe_without_weapons) :
                    recipe_without_weapons[i] = t })

\* every non-weapon slot can be filled from cursors gen
SlotsFillable(gen) ==
    \A i \in 1..Len(recipe_without_weapons) :
        Unconsumed(gen, recipe_without_weapons[i]) >= SlotsOf(recipe_without_weapons[i])

\* no weapon portion of any kind is left at cursors gen
NoWeaponsLeft(gen) ==
    Unconsumed(gen, "Weapon1HOrShield") < 2 /\ Unconsumed(gen, "Weapon2H") = 0

\* all required slots of bundle b are there
Complete(b) ==
    /\ Len(run.out[b]) > Len(recipe_without_weapons)
    /\ \A i \in 1..Len(recipe_without_weapons) :
           run.out[b][i].itype = recipe_without_weapons[i]
    /\ \A i \in (Len(recipe_without_weapons) + 1)..Len(run.out[b]) :
           run.out[b][i].itype \in {"Weapon1HOrShield", "Weapon2H"}

\* C21: a next() call that finds a non-weapon slot it cannot fill, or no
\* weapon item to complete a weapon portion with, yields no bundle; every
\* call but a final failed one has yielded one bundle, every bundle yielded
\* has all its slots, and when the run ends the bundles yielded are what
\* collect() stores in bundle_queue for that inventory.
C21_NoPartialBundle ==
    run.active =>
        /\ Called => ((~SlotsFillable(run.before) \/ NoWeaponsLeft(run.before))
                         => run.done)
        /\ Len(run.out) = run.calls - (IF run.done THEN 1 ELSE 0)
        /\ \A b \in Bundles : Complete(b)
        /\ run.done => run.out = Generate(run.inv)

\* a run that ended after a first bundle because a non-weapon slot could
\* not be filled, although weapons for a second bundle were still there
C21_Witness ==
    /\ Called
    /\ run.done
    /\ Len(run.out) = 1
    /\ ~SlotsFillable(run.before)
    /\ ~NoWeaponsLeft(run.before)
    /\ Unconsumed(run.before, "Amulet") > 0

(***************************************************************************)
(* Classification, stated on the snapshot: the fetch results in the        *)
(* channel carry the index of the snapshot they were classified from.      *)
(***************************************************************************)
\* the qualifying items of type t with item level 60..74, and those with
\* item level 75 or more, in snapshot order
RoutedLow(items, t) ==
    SelectSeq(items, LAMBDA item : /\ item.frame_type = QualifyingFrameType
                                   /\ item.itype = t
                                   /\ item.ilvl >= 60
                                   /\ item.ilvl <= 74)

RoutedHigh(items, t) ==
    SelectSeq(items, LAMBDA item : /\ item.frame_type = QualifyingFrameType
                                   /\ item.itype = t
                                   /\ item.ilvl >= 75)

\* m is the classification of items that C22 describes
RoutedByLevelAndRarity(items, m) ==
    /\ DOMAIN m \subseteq ItemType
    /\ \A t \in ItemType :
           IF RoutedLow(items, t) = <<>> /\ RoutedHigh(items, t) = <<>>
           THEN t \notin DOMAIN m
           ELSE /\ t \in DOMAIN m
                /\ m[t][1] = RoutedLow(items, t)
                /\ m[t][2] = RoutedHigh(items, t)

SnapshotItems(snap) == DeserializeStash(Snapshots[snap]).items

\* C22: the inventory a successful fetch delivers holds, for every item
\* type, the qualifying items of the snapshot with item level 60..74 in the
\* low-tier list and those with item level 75 or more in the high-tier list,
\* each in snapshot order; items with item level below 60 or of another
\* rarity are in no list, and a type without qualifying items has no entry.
C22_Classification ==
    [][\A f \in inflight \ inflight' :
           f.stage = "fetched" =>
               /\ f.items = SnapshotItems(f.snap)
               /\ data_chan' = Append(data_chan, data_chan'[Len(data_chan')])
               /\ data_chan'[Len(data_chan')].ok
               /\ RoutedByLevelAndRarity(f.items,
                                         data_chan'[Len(data_chan')].map)]_vars

\* the result of classifying the two-set snapshot is in the channel: its
\* rings of level 66 and 74 are the low-tier rings, in that order, and its
\* rings of level 75 and 86 the high-tier ones
C22_Witness ==
    \E k \in 1..Len(data_chan) :
        /\ data_chan[k].ok
        /\ data_chan[k].snap = 2
        /\ Len(data_chan[k].map["Ring"][1]) = 2
        /\ data_chan[k].map["Ring"][1][1].ilvl = 66
        /\ data_chan[k].map["Ring"][1][2].ilvl = 74
        /\ data_chan[k].map["Ring"][2][1].ilvl = 75
        /\ data_chan[k].map["Ring"][2][2].ilvl = 86

\* the one-set snapshot is cached: its belt of level 59 and its ring of
\* another rarity are in no list, its bow of level 74 is a low-tier Weapon2H
C22_Dropped ==
    /\ map_fid # 0
    /\ RoutedByLevelAndRarity(SnapshotItems(1), map)
    /\ Len(map["Belt"][1]) + Len(map["Belt"][2]) = 1
    /\ Len(map["Ring"][1]) + Len(map["Ring"][2]) = 2
    /\ map["Weapon2H"][1][1].ilvl = 74

\* the snapshot holds a record whose identifier is malformed
Malformed(snap) ==
    \E i \in 1..Len(snap.items) : ~visit_str(snap.items[i].icon).ok

\* C23: a fetch that reads a snapshot with a malformed record ends by
\* sending a failure result that carries no inventory, and in doing so
\* changes neither the is_double_stash flag nor current_inventory nor
\* bundle_queue; the inventory the coordinator caches is always that of a
\* successful fetch.
C23_MalformedFailsFetch ==
    /\ [][\A f \in inflight \ inflight' :
              (f.stage = "fetching" /\ Malformed(Snapshots[remote])) =>
                  /\ inflight' = inflight \ {f}
                  /\ data_chan' = Append(data_chan, [fid |-> f.fid, by |-> f.by,
                                                     ok |-> FALSE])
                  /\ IS_QUAD_STASH' = IS_QUAD_STASH
                  /\ map' = map
                  /\ chaos_queue' = chaos_queue]_vars
    /\ [](map_fid # 0 =>
              \E i \in 1..Len(fetches) :
                  fetches[i].fid = map_fid /\ fetches[i].ok /\ fetches[i].applied)

\* the only fetch so far read the snapshot with the malformed record, whose
\* double-size flag is set: the fetch failed, the flag is still unset, and
\* the failure, once reported, has left the inventory empty
C23_Witness ==
    /\ Malformed(Snapshots[remote])
    /\ Snapshots[remote].quadLayout
    /\ nfetch = 1
    /\ inflight = {}
    /\ Len(fetches) = 1
    /\ ~fetches[1].ok
    /\ fetches[1].reports = 1
    /\ ~IS_QUAD_STASH
    /\ map = EmptyMap

(***************************************************************************)
(* The picks of the last bundle, read off the bundle and the cursors the   *)
(* call started from.  A low-tier item is one of item level below 75: the  *)
(* lists hold qualifying items only.                                       *)
(***************************************************************************)
LowTier(item) == item.ilvl >= 60 /\ item.ilvl <= 74

\* the preference flag when slot i of the last bundle is picked: an earlier
\* slot of the bundle was filled from a low-tier list
FlagAt(i) == \E j \in 1..(i - 1) : LowTier(LastBundle[j])

\* the items of tier side that the earlier slots of the last bundle took
\* from the lists of the type of slot i
TakenBefore(i, side) ==
    Cardinality({ j \in 1..(i - 1) :
                    /\ LastBundle[j].itype = LastBundle[i].itype
                    /\ LowTier(LastBundle[j]) <=> side = 1 })

\* what is left of list side of the type of slot i when slot i is picked
LeftAt(i, side) ==
    LET list == Remaining(run.before, recipe_without_weapons[i], side)
    IN  SubSeq(list, TakenBefore(i, side) + 1, Len(list))

\* the pick the rule of C24 prescribes for slot i
PrescribedAt(i) ==
    IF FlagAt(i)
    THEN IF LeftAt(i, 2) # <<>> THEN Head(LeftAt(i, 2)) ELSE Head(LeftAt(i, 1))
    ELSE IF LeftAt(i, 1) # <<>> THEN Head(LeftAt(i, 1)) ELSE Head(LeftAt(i, 2))

\* C24: in every bundle yielded, each of the 8 non-weapon slots holds the
\* item its rule prescribes: the flag is false for the first slot of the
\* bundle and true for a slot exactly when an earlier slot of the same
\* bundle was filled from a low-tier list; with the flag false the slot
\* takes the next unconsumed low-tier item of its type, or the next
\* high-tier item if there is none, and with the flag true the next
\* high-tier item, or the next low-tier item if there is none.
C24_SlotPreference ==
    LastYielded =>
        \A i \in 1..Len(recipe_without_weapons) :
            /\ LeftAt(i, 1) # <<>> \/ LeftAt(i, 2) # <<>>
            /\ LastBundle[i] = PrescribedAt(i)

\* a second bundle whose first slot took a high-tier item for want of a
\* low-tier one, a later slot a low-tier item, and a slot after that a
\* high-tier item although a low-tier item of its type was left
C24_Witness ==
    /\ LastYielded
    /\ run.calls = 2
    /\ ~LowTier(LastBundle[1])
    /\ \E i, j \in 1..Len(recipe_without_weapons) :
           /\ i < j
           /\ ~FlagAt(i)
           /\ LowTier(LastBundle[i])
           /\ ~LowTier(LastBundle[j])
           /\ LeftAt(j, 1) # <<>>

(***************************************************************************)
(* The weapon portion of the last call.  LastFold is the call's fold over  *)
(* the 8 non-weapon slots: it gives the flag and the cursors the weapon    *)
(* portion starts from.                                                    *)
(***************************************************************************)
LastFold == FoldSlots(run.before, 1, <<>>, FALSE)

\* the call got as far as the weapon portion, with the flag at value flag
AtWeapons(flag) == Called /\ LastFold.some /\ LastFold.can_make_chaos = flag

LowLeft(t) == Remaining(LastFold.gen, t, 1)

HighLeft(t) == Remaining(LastFold.gen, t, 2)

\* the items of type t in the order prefer-high-tier picks take them, and
\* in the order prefer-low-tier picks take them
HighFirst(t) == HighLeft(t) \o LowLeft(t)

LowFirst(t) == LowLeft(t) \o HighLeft(t)

LastWeaponPart == WeaponPart(Len(run.out))

\* the last call yielded a bundle whose weapon portion is items
YieldedWith(items) == LastYielded /\ LastWeaponPart = items

\* C25: when the flag is true after the 8 non-weapon slots, the weapon
\* portion is the first two Weapon1HOrShield items in prefer-high order if
\* there are two; otherwise it is the first Weapon2H item in prefer-high
\* order, of whichever tier, if there is one; otherwise the call yields no
\* bundle.
C25_WeaponsFlagTrue ==
    AtWeapons(TRUE) =>
        IF Len(HighFirst("Weapon1HOrShield")) >= 2
        THEN YieldedWith(SubSeq(HighFirst("Weapon1HOrShield"), 1, 2))
        ELSE IF HighFirst("Weapon2H") # <<>>
        THEN YieldedWith(<<Head(HighFirst("Weapon2H"))>>)
        ELSE run.done

\* with the flag true exactly one Weapon1HOrShield item was left, so the
\* second pick failed, and the bundle was yielded with a low-tier Weapon2H
\* item, there being no high-tier one
C25_Witness ==
    /\ AtWeapons(TRUE)
    /\ Len(HighFirst("Weapon1HOrShield")) = 1
    /\ HighLeft("Weapon2H") = <<>>
    /\ LastYielded
    /\ LastWeaponPart = <<Head(LowLeft("Weapon2H"))>>

\* with the flag true neither pool could complete the bundle
C25_NoWeapons ==
    /\ AtWeapons(TRUE)
    /\ Len(HighFirst("Weapon1HOrShield")) = 1
    /\ HighFirst("Weapon2H") = <<>>
    /\ run.done

(***************************************************************************)
(* The weapon portion when the flag is false after the 8 non-weapon slots. *)
(* The one-hand pair forms only when the first pick is a low-tier item and *)
(* a second item is left; every other case goes to the Weapon2H pool.      *)
(***************************************************************************)
PairForms ==
    /\ LowLeft("Weapon1HOrShield") # <<>>
    /\ Len(LowFirst("Weapon1HOrShield")) >= 2

\* the outcome of the Weapon2H fall-back with the flag false
TwoHandLowOrNothing ==
    IF LowLeft("Weapon2H") # <<>>
    THEN YieldedWith(<<Head(LowLeft("Weapon2H"))>>)
    ELSE run.done

\* C26 as stated: with the flag false, on the fall-back to the Weapon2H pool
\* with no low-tier Weapon2H item but a high-tier one left, the high-tier
\* item is taken and the bundle is yielded.
C26_TwoHandHighTaken ==
    (/\ AtWeapons(FALSE)
     /\ ~PairForms
     /\ LowLeft("Weapon2H") = <<>>
     /\ HighLeft("Weapon2H") # <<>>)
        => YieldedWith(<<Head(HighLeft("Weapon2H"))>>)

\* C26 amended: with the flag false, the fall-back to the Weapon2H pool
\* accepts a low-tier item only: the first low-tier Weapon2H item is taken
\* and the bundle yielded if there is one, and otherwise no bundle is
\* yielded, a high-tier Weapon2H item notwithstanding.
C26_TwoHandLowOnly ==
    (AtWeapons(FALSE) /\ ~PairForms) => TwoHandLowOrNothing

\* the fall-back found only a high-tier Weapon2H item and the call yielded
\* nothing
C26_Witness ==
    /\ AtWeapons(FALSE)
    /\ ~PairForms
    /\ LowLeft("Weapon2H") = <<>>
    /\ HighLeft("Weapon2H") # <<>>
    /\ run.done

\* the first Weapon1HOrShield pick, prefer-low, comes from the high-tier list
FirstPickHigh ==
    /\ LowLeft("Weapon1HOrShield") = <<>>
    /\ HighLeft("Weapon1HOrShield") # <<>>

\* C27 as stated: with the flag false and the first Weapon1HOrShield pick
\* from the high-tier list, a second Weapon1HOrShield item is taken and the
\* bundle is yielded with the pair as its weapon portion, no high-tier item
\* of the pair before a low-tier one.
C27_PairAfterHighPick ==
    (/\ AtWeapons(FALSE)
     /\ FirstPickHigh
     /\ Len(HighLeft("Weapon1HOrShield")) >= 2)
        => /\ LastYielded
           /\ Len(LastWeaponPart) = 2
           /\ ~(~LowTier(LastWeaponPart[1]) /\ LowTier(LastWeaponPart[2]))
           /\ Unconsumed(run.gen, "Weapon1HOrShield")
                  = Unconsumed(LastFold.gen, "Weapon1HOrShield") - 2

\* C27 amended: with the flag false, a first Weapon1HOrShield pick from the
\* high-tier list never gives a pair: the weapon portion is then the
\* Weapon2H fall-back (a low-tier Weapon2H item, or no bundle).  The mixed
\* pair arises when the first pick is low-tier and a high-tier item is
\* left: the pair is then the high-tier item followed by the low-tier one.
C27_NoPairAfterHighPick ==
    AtWeapons(FALSE) =>
        /\ FirstPickHigh => TwoHandLowOrNothing
        /\ (/\ LowLeft("Weapon1HOrShield") # <<>>
            /\ HighLeft("Weapon1HOrShield") # <<>>)
               => YieldedWith(<<Head(HighLeft("Weapon1HOrShield")),
                                Head(LowLeft("Weapon1HOrShield"))>>)

\* two high-tier Weapon1HOrShield items were left and no low-tier one, and
\* the bundle was yielded with a low-tier Weapon2H item instead
C27_Witness ==
    /\ AtWeapons(FALSE)
    /\ FirstPickHigh
    /\ Len(HighLeft("Weapon1HOrShield")) >= 2
    /\ LowLeft("Weapon2H") # <<>>
    /\ YieldedWith(<<Head(LowLeft("Weapon2H"))>>)

\* the mixed pair, high-tier item first
C27_MixedPair ==
    /\ AtWeapons(FALSE)
    /\ LastYielded
    /\ Len(LastWeaponPart) = 2
    /\ ~LowTier(LastWeaponPart[1])
    /\ LowTier(LastWeaponPart[2])

\* the number of Weapon2H items the last call consumed
TwoHandConsumed ==
    Unconsumed(LastFold.gen, "Weapon2H") - Unconsumed(run.gen, "Weapon2H")

\* C28 as stated: with the flag false, when the first Weapon1HOrShield pick
\* succeeds no Weapon2H item is consumed and no bundle with a Weapon2H item
\* is yielded.
C28_TwoHandOnlyIfNoOneHand ==
    (AtWeapons(FALSE) /\ LowFirst("Weapon1HOrShield") # <<>>)
        => /\ TwoHandConsumed = 0
           /\ ~(LastYielded /\ Len(LastWeaponPart) = 1)

\* C28 amended: with the flag false, the Weapon2H pool is left alone exactly
\* when the one-hand pair forms, that is when the first Weapon1HOrShield
\* pick is low-tier and a second item is left.  In every other case, a
\* successful first pick included, one Weapon2H item is consumed if any is
\* left, and a bundle yielded then has a single Weapon2H item as its weapon
\* portion.
C28_TwoHandUnlessPair ==
    AtWeapons(FALSE) =>
        IF PairForms
        THEN /\ TwoHandConsumed = 0
             /\ LastYielded
             /\ Len(LastWeaponPart) = 2
        ELSE /\ TwoHandConsumed
                    = IF LowFirst("Weapon2H") # <<>> THEN 1 ELSE 0
             /\ LastYielded => Len(LastWeaponPart) = 1

\* the first pick took the only Weapon1HOrShield item, which stays consumed,
\* and the bundle was yielded with a Weapon2H item
C28_Witness ==
    /\ AtWeapons(FALSE)
    /\ Len(LowFirst("Weapon1HOrShield")) = 1
    /\ Unconsumed(run.gen, "Weapon1HOrShield") = 0
    /\ TwoHandConsumed = 1
    /\ LastYielded
    /\ Len(LastWeaponPart) = 1

\* the types a bundle draws from
RecipeTypes ==
    { recipe_without_weapons[i] : i \in 1..Len(recipe_without_weapons) }
        \cup {"Weapon1HOrShield", "Weapon2H"}

\* the low-tier items of the recipe types in the classified inventory
LowTierItems(m) ==
    UNION { { x \in { m[t][side][i] : i \in 1..Len(m[t][side]) } : LowTier(x) } :
              t \in DOMAIN m \cap RecipeTypes, side \in 1..2 }

\* C29: every bundle yielded contains at least one low-tier item (item level
\* 60..74), and a run over an inventory with no low-tier item of any recipe
\* type yields no bundle.
C29_LowTierInEveryBundle ==
    run.active =>
        /\ \A b \in Bundles :
               \E i \in 1..Len(run.out[b]) : LowTier(run.out[b][i])
        /\ (Called /\ LowTierItems(run.inv) = {}) => (run.done /\ run.out = <<>>)

\* a bundle was yielded whose only low-tier item is its weapon, and a run
\* over an inventory of high-tier items of every type has ended with no
\* bundle
C29_Witness ==
    /\ LastYielded
    /\ \A i \in 1..Len(recipe_without_weapons) : ~LowTier(LastBundle[i])
    /\ LowTier(LastBundle[Len(LastBundle)])

C29_NoLowTier ==
    /\ Called
    /\ LowTierItems(run.inv) = {}
    /\ SlotsFillable(run.before)
    /\ ~NoWeaponsLeft(run.before)
    /\ run.done

\* C30: in every coordinator state total_count is the number of bundles the
\* generator yields over the cached inventory and chaos_queue is a suffix of
\* that sequence; so the queue is never longer than total_count, and the
\* difference is the number of bundles handed out since the last rebuild.
C30_CountAndQueue ==
    \A generated \in {Generate(map)} :
        /\ total_count = Len(generated)
        /\ IsSuffix(chaos_queue, generated)
        /\ Len(chaos_queue) <= total_count
        /\ total_count - Len(chaos_queue) = Len(delivered)

\* one bundle of two has been handed out since the rebuild and one is queued
C30_Witness ==
    /\ total_count = 2
    /\ Len(chaos_queue) = 1
    /\ Len(delivered) = 1
    /\ chaos_queue = Tail(Generate(map))
    /\ chaos_queue # <<Head(Generate(map))>>

(***************************************************************************)
(* The result channel and the cache seen over time.                        *)
(***************************************************************************)
\* refresh signals in the mailbox, fetches running, results not yet drained
Outstanding == Len(in_chan) + Cardinality(inflight) + Len(data_chan)

\* C31 as stated: the result channel never holds more than 2 unconsumed
\* results.
C31_AtMostTwoResults == Len(data_chan) <= 2

\* C31 amended: the result channel never holds more than 3 unconsumed
\* results, and the signals pending in the mailbox, the fetches in flight
\* and the unconsumed results are never more than 3 together: what was
\* pending or running at the last drain (a full mailbox and one fetch) and
\* the signal of the RequestStashStatus being handled, which is sent before
\* that request drains.
C31_AtMostThreeOutstanding ==
    /\ Len(data_chan) <= MailboxCapacity + 2
    /\ Outstanding <= MailboxCapacity + 2
    /\ ~handling.some => Outstanding <= MailboxCapacity + 1

\* three results wait in the channel: the third fetch ended between the
\* try_send and the drain of the request that signalled it
C31_Witness ==
    /\ Len(data_chan) = 3
    /\ handling.some
    /\ handling.sig.accepted
    /\ data_chan[3].by = handling.msg.rid

\* the fetches whose get_stash_data_in returns Ok in this step
Fetched == { f \in inflight' \ inflight : f.stage = "fetched" }

\* the snapshots whose classification is the inventory m
SnapshotsOf(m) ==
    { s \in 1..Len(Snapshots) :
        DeserializeStash(Snapshots[s]).ok /\ Classify(SnapshotItems(s)) = m }

\* C32 as stated: the flag sent with a non-empty bundle is the double-size
\* indicator of the snapshot that is the inventory the bundle was generated
\* from.
C32_FlagOfCachedSnapshot ==
    (BundleHandled /\ last.resp.list # <<>>) =>
        \E s \in SnapshotsOf(last.pre.map) :
            last.resp.quad = Snapshots[s].quadLayout

\* C32 amended: the flag sent with a bundle is the double-size indicator of
\* the most recent fetch that returned successfully before the request was
\* handled, whether or not its snapshot has become the inventory: the flag
\* takes the indicator of a snapshot when its fetch returns, nothing else
\* changes it, and a RequestChaosRecipe sends the flag as it stands.
C32_FlagOfLatestFetch ==
    [][/\ \A f \in Fetched : IS_QUAD_STASH' = Snapshots[f.snap].quadLayout
       /\ Fetched = {} => IS_QUAD_STASH' = IS_QUAD_STASH
       /\ BundleStep => last'.resp.quad = IS_QUAD_STASH]_vars

\* a bundle of the single-size snapshot was sent with the flag of the
\* double-size snapshot, fetched later and not yet drained
C32_Witness ==
    /\ BundleHandled
    /\ last.resp.list # <<>>
    /\ last.resp.quad
    /\ ~Snapshots[1].quadLayout
    /\ 1 \in SnapshotsOf(last.pre.map)
    /\ \E i \in 1..Len(data_chan) : data_chan[i].ok /\ data_chan[i].snap = 2

\* C33: the cache never goes back in time.  Fetches are numbered in the
\* order they are started; the results wait in the channel in that order and
\* are all of fetches started after the fetch whose snapshot is cached, and
\* whenever the inventory is replaced it is by the snapshot of a fetch
\* started later than the fetch whose snapshot was cached.
C33_NeverBackInTime ==
    /\ [](/\ \A i, j \in 1..Len(data_chan) :
                 i < j => data_chan[i].fid < data_chan[j].fid
          /\ \A i \in 1..Len(data_chan) : data_chan[i].fid > map_fid)
    /\ [][/\ map_fid' >= map_fid
          /\ map' # map => map_fid' > map_fid]_vars

\* the inventory has been replaced twice, the second time by the snapshot of
\* a later fetch than the first time
C33_Witness ==
    \E i, j \in 1..Len(fetches) :
        /\ fetches[i].fid < fetches[j].fid
        /\ fetches[i].applied
        /\ fetches[j].applied
        /\ map_fid = fetches[j].fid

(***************************************************************************)
(* The program running for ever.  The callers go on calling and the worker *)
(* goes on fetching with the request and fetch numbers no longer counted   *)
(* and the fate of the fetches no longer recorded, so that the states are  *)
(* finitely many; every fetch that ends ends with Ok.                      *)
(***************************************************************************)
\* acquire_chaos_list, the requests not counted
acquire_chaos_list_again(requre_whole) ==
    /\ lock = 0
    /\ lock' = 1
    /\ reply' = <<>>
    /\ recv' = Append(recv,
                      [kind |-> IF requre_whole THEN "RequestStashStatus"
                                ELSE "RequestChaosRecipe",
                       rid |-> 1])
    /\ UNCHANGED <<map, chaos_queue, total_count, IS_QUAD_STASH, in_chan,
                   data_chan, inflight, handling, remote, nreq, nfetch,
                   map_fid, last, fetches, delivered, run>>

\* WorkerRecv, the fetches not counted
WorkerRecv_again ==
    /\ WorkerIdle
    /\ in_chan # <<>>
    /\ in_chan' = Tail(in_chan)
    /\ inflight' = inflight \cup
                   {[fid |-> 1, by |-> Head(in_chan).by,
                     sig |-> Head(in_chan).sig, stage |-> "fetching"]}
    /\ UNCHANGED <<map, chaos_queue, total_count, IS_QUAD_STASH, data_chan,
                   recv, handling, lock, reply, remote, nreq, nfetch, map_fid,
                   last, fetches, delivered, run>>

\* what get_stash_data_in returns for each remote content, and the map the
\* classification loop builds from it
RECURSIVE DeserializedUpTo(_)
DeserializedUpTo(n) ==
    IF n = 0 THEN <<>>
    ELSE Append(DeserializedUpTo(n - 1), DeserializeStash(Snapshots[n]))

Deserialized == DeserializedUpTo(Len(Snapshots))

RECURSIVE ClassifiedUpTo(_)
ClassifiedUpTo(n) ==
    IF n = 0 THEN <<>>
    ELSE Append(ClassifiedUpTo(n - 1),
                IF Deserialized[n].ok THEN Classify(Deserialized[n].items)
                ELSE None)

Classified == ClassifiedUpTo(Len(Snapshots))

\* FetchOk, for a fetch not counted
FetchOk_again ==
    \E f \in inflight :
        /\ f.stage = "fetching"
        /\ Deserialized[remote].ok
        /\ IS_QUAD_STASH' = Deserialized[remote].quad_layout
        /\ inflight' = (inflight \ {f}) \cup
                       {[fid |-> f.fid, by |-> f.by, sig |-> f.sig,
                         stage |-> "fetched", snap |-> remote,
                         items |-> Deserialized[remote].items]}
        /\ UNCHANGED <<map, chaos_queue, total_count, in_chan, data_chan, recv,
                       handling, lock, reply, remote, nreq, nfetch, map_fid,
                       last, fetches, delivered, run>>

\* WorkerSend, the result not recorded
WorkerSend_again ==
    \E f \in inflight :
        /\ f.stage = "fetched"
        /\ data_chan' = Append(data_chan,
                               [fid |-> f.fid, by |-> f.by, ok |-> TRUE,
                                snap |-> f.snap, map |-> Classified[f.snap]])
        /\ inflight' = inflight \ {f}
        /\ UNCHANGED <<map, chaos_queue, total_count, IS_QUAD_STASH, in_chan,
                       recv, handling, lock, reply, remote, nreq, nfetch,
                       map_fid, last, fetches, delivered, run>>

\* the fetch worker thread
Worker_again == WorkerRecv_again \/ FetchOk_again \/ WorkerSend_again

LiveNext ==
    \/ \E requre_whole \in BOOLEAN : acquire_chaos_list_again(requre_whole)
    \/ acquire_return
    \/ WorkerRecv_again
    \/ FetchOk_again
    \/ WorkerSend_again
    \/ RemoteChange
    \/ RequestChaosRecipe
    \/ RequestStashStatus_signal
    \/ RequestStashStatus_drain

\* the coordinator thread and the worker thread keep running
LiveSpec ==
    Init /\ [][LiveNext]_vars /\ WF_vars(Coordinator) /\ WF_vars(Worker_again)

\* the snapshots a fetch returns Ok for
GoodSnapshots == { s \in 1..Len(Snapshots) : Deserialized[s].ok }

\* the response that carries the classification of snapshot s and the number
\* of bundles generated from it
Fresh(s) == StashStatus(Classified[s], Len(Generate(Classified[s])))

RECURSIVE FreshUpTo(_)
FreshUpTo(n) ==
    IF n = 0 THEN <<>>
    ELSE Append(FreshUpTo(n - 1), IF Deserialized[n].ok THEN Fresh(n) ELSE None)

FreshResponses == FreshUpTo(Len(Snapshots))

\* C34: eventual freshness.  If the remote content stops changing, at a
\* snapshot the fetches succeed on, and RequestStashStatus requests keep
\* being handled, then from some point on every RequestStashStatus response
\* carries the classification of that content and the bundle count
\* generated from it.
C34_EventualFreshness ==
    \A s \in GoodSnapshots :
        (<>[](remote = s) /\ []<>(handling.some))
            => <>[](StatusHandled => last.resp = FreshResponses[s])

\* the remote content went from the second snapshot, which was cached, back
\* to the first, and a RequestStashStatus has answered with the first
C34_Witness ==
    /\ StatusHandled
    /\ remote = 1
    /\ last.pre.map = Classify(SnapshotItems(2))
    /\ last.resp = FreshResponses[1]
    /\ nreq = 0
====
